---- MODULE Spec2Model ----
(***************************************************************************)
(* Model of the golddash evaluation cycle (src/app.py): the two fetchers,  *)
(* the merge / forward-fill / slice of the aligned table, the derived      *)
(* fields, the anchor drop and the regime classifier.                      *)
(*                                                                         *)
(* A raw series is a sequence of observations [d |-> day, x |-> value] in  *)
(* arrival order (duplicates and unsorted arrival are possible).  A data   *)
(* frame is [cols |-> set of column names, rows |-> sequence of            *)
(* [d |-> day, v |-> [cols -> value]]].  Missing values are NaN.           *)
(* Days are integers; a row's timestamp is midnight of its day.            *)
(***************************************************************************)
EXTENDS Integers, Sequences, FiniteSets, TLC

VARIABLES
    time_range,     \* lookback label chosen in the sidebar
    tod,            \* 0: the cycle runs exactly at midnight, 1: later in the day
    emptyCmpRaises, \* library build: comparing an empty default index with a timestamp raises
    fredKeyOk,      \* FRED_API_KEY configured
    rawYF,          \* what yf.download returns per logical name (<<>>: empty or failed)
    rawFRED,        \* the provider's history per logical name (<<>>: empty or failed)
    pc,             \* position of the script
    df_yf, df_fred, df_all,
    pivot,          \* [p, r1, s1, r2, s2]
    fedwatch_prob,
    gold_pct_change,\* a fraction, undefined (def = FALSE) until the KPI card sets it
    current_premium,
    signal          \* the rendered regime box, NoSignal until rendered

vars == <<time_range, tod, emptyCmpRaises, fredKeyOk, rawYF, rawFRED, pc,
          df_yf, df_fred, df_all, pivot, fedwatch_prob, gold_pct_change,
          current_premium, signal>>

----------------------------------------------------------------------------
(* Values *)

NaN == -999999

IsNum(x) == x # NaN

\* float arithmetic and comparison with NaN propagation
Sub(a, b) == IF a = NaN \/ b = NaN THEN NaN ELSE a - b
Add(a, b) == IF a = NaN \/ b = NaN THEN NaN ELSE a + b
Gt(a, b) == a # NaN /\ b # NaN /\ a > b
Lt(a, b) == a # NaN /\ b # NaN /\ a < b

----------------------------------------------------------------------------
(* Configuration *)

YF_TICKERS == {"Gold", "DXY", "10Y_Nominal_YF", "GLD", "FFF", "VIX", "GVZ",
               "USDCNY", "DomGold"}

FRED_TICKERS == {"10Y_Breakeven_FRED", "2Y_Nominal", "FedFunds", "SOFR",
                 "Interest_to_GDP", "Federal_Debt_GDP", "CFTC_Net"}

TimeRanges == {"1mo", "3mo", "1y", "2y"}

LookbackDays(label) ==
    IF label = "1mo" THEN 30
    ELSE IF label = "3mo" THEN 90
    ELSE IF label = "1y" THEN 365
    ELSE 730

FredBufferDays == 150
MAWindow == 200

\* the day on which the cycle runs
Today == 1000

\* day part of start_date = datetime.today() - timedelta(days=N)
StartDay(label) == Today - LookbackDays(label)

\* index >= pd.to_datetime(start_date): rows are stamped at midnight,
\* start_date carries the time of day of the run
AtOrAfterStart(d, label, t) == d > StartDay(label) \/ (d = StartDay(label) /\ t = 0)

----------------------------------------------------------------------------
(* Frames *)

EmptyFrame == [cols |-> {}, rows |-> <<>>]

\* the value x with its functions evaluated once: TLC evaluates the body of a
\* function at each application until the function has been compared
Evaluated(x) == IF x = x THEN x ELSE x
Raised == [cols |-> {"#raised"}, rows |-> <<>>]

IndexOf(rows) == [i \in 1..Len(rows) |-> rows[i].d]
DaySet(idx) == {idx[i] : i \in 1..Len(idx)}
HasDup(idx) == \E i, j \in 1..Len(idx) : i < j /\ idx[i] = idx[j]
Count(idx, d) == Cardinality({i \in 1..Len(idx) : idx[i] = d})

StrictlyIncreasing(idx) == \A i \in 1..(Len(idx) - 1) : idx[i] < idx[i + 1]

\* the rows at the positions of keep, in order
SelectRows(rows, keep) ==
    LET tagged == [i \in 1..Len(rows) |-> [pos |-> i, row |-> rows[i]]]
        kept == SelectSeq(tagged, LAMBDA t : t.pos \in keep)
    IN [k \in 1..Len(kept) |-> kept[k].row]

MaxOf(S) == CHOOSE m \in S : \A x \in S : x <= m
MinOf(S) == CHOOSE m \in S : \A x \in S : m <= x

\* sorted union of indexes keeping, per day, the largest multiplicity
SortedMultiUnion(idxs) ==
    LET days == UNION {DaySet(ix) : ix \in idxs}
        mult(d) == MaxOf({Count(ix, d) : ix \in idxs})
        lo == MinOf(days)
        m == MaxOf({mult(d) : d \in days})
        \* every day of lo..MaxOf(days) m times over, ascending
        slots == [j \in 1..((MaxOf(days) - lo + 1) * m) |->
                    [d |-> lo + ((j - 1) \div m), k |-> ((j - 1) % m) + 1]]
        taken == SelectSeq(slots, LAMBDA t : t.d \in days /\ t.k <= mult(t.d))
    IN IF days = {} THEN <<>> ELSE [j \in 1..Len(taken) |-> taken[j].d]

\* the non-concatenation axis of pd.concat(axis=1): kept as is when all
\* indexes are equal, otherwise the sorted union
CombinedIndex(idxs) ==
    IF Cardinality(idxs) = 1 THEN CHOOSE ix \in idxs : TRUE
    ELSE SortedMultiUnion(idxs)

\* value of a series at the first position carrying day d, NaN if none
Lookup(s, d) ==
    IF \E i \in 1..Len(s) : s[i].d = d
    THEN s[CHOOSE i \in 1..Len(s) : s[i].d = d /\ \A j \in 1..(i - 1) : s[j].d # d].x
    ELSE NaN

\* pd.concat(series_list, axis=1): reindexing a series whose index has
\* duplicates onto a different index raises
ConcatSeries(raw, names) ==
    LET present == {n \in names : raw[n] # <<>>}
        idxOf(n) == [i \in 1..Len(raw[n]) |-> raw[n][i].d]
        idx == CombinedIndex({idxOf(n) : n \in present})
    IN IF present = {} THEN EmptyFrame
       ELSE IF \E n \in present : idxOf(n) # idx /\ HasDup(idxOf(n)) THEN Raised
       ELSE [cols |-> present,
             rows |-> [i \in 1..Len(idx) |->
                         [d |-> idx[i],
                          v |-> [n \in present |->
                                   IF idxOf(n) = idx THEN raw[n][i].x
                                   ELSE Lookup(raw[n], idx[i])]]]]

\* df.loc[~df.index.duplicated(keep='last')]
KeepLast(rows, i) == \A j \in (i + 1)..Len(rows) : rows[j].d # rows[i].d
DropDuplicated(df) ==
    [df EXCEPT !.rows = SelectRows(df.rows, {i \in 1..Len(df.rows) : KeepLast(df.rows, i)})]

\* df.sort_index() on a unique index
SortIndex(df) ==
    [df EXCEPT !.rows = SortSeq(df.rows, LAMBDA a, b : a.d < b.d)]

\* df.ffill(): positional, per column
Ffill(df) ==
    LET seen(c, i) == {j \in 1..i : df.rows[j].v[c] # NaN}
        latest(c, i) == CHOOSE j \in seen(c, i) : \A k \in (j + 1)..i : df.rows[k].v[c] = NaN
    IN [df EXCEPT !.rows =
           [i \in 1..Len(df.rows) |->
               [d |-> df.rows[i].d,
                v |-> [c \in df.cols |->
                         IF seen(c, i) = {} THEN NaN
                         ELSE df.rows[latest(c, i)].v[c]]]]]

\* df[df.index >= pd.to_datetime(start_date)]
SliceFromStart(df, label, t) ==
    [df EXCEPT !.rows =
        SelectRows(df.rows, {i \in 1..Len(df.rows) : AtOrAfterStart(df.rows[i].d, label, t)})]

Col(df, c) == [i \in 1..Len(df.rows) |-> df.rows[i].v[c]]

\* df[c] = values (one per row)
WithCol(df, c, vals) ==
    [cols |-> df.cols \cup {c},
     rows |-> [i \in 1..Len(df.rows) |->
                 [d |-> df.rows[i].d,
                  v |-> [k \in df.cols \cup {c} |->
                           IF k = c THEN vals[i] ELSE df.rows[i].v[k]]]]]

----------------------------------------------------------------------------
(* Data fetching *)

\* get_yfinance_data: every non-empty download becomes a column; the concat
\* is outside the per-ticker try, so its error propagates
get_yfinance_data(raw) ==
    DropDuplicated(ConcatSeries(raw, YF_TICKERS))

\* fred.get_series(ticker, observation_start=buffer_start)
FredObservations(s, label) ==
    SelectSeq(s, LAMBDA o : o.d >= StartDay(label) - FredBufferDays)

\* get_fred_data: any error after the key check is caught and gives an empty frame
get_fred_data(raw, label, t, keyOk) ==
    LET fetched == Evaluated([n \in FRED_TICKERS |-> FredObservations(raw[n], label)])
        cat == ConcatSeries(fetched, FRED_TICKERS)
    IN IF ~keyOk THEN EmptyFrame
       ELSE IF cat = Raised \/ cat = EmptyFrame THEN EmptyFrame
       ELSE SliceFromStart(Ffill(SortIndex(DropDuplicated(cat))), label, t)

----------------------------------------------------------------------------
(* Merge, fill, slice *)

RowAt(df, d) == df.rows[CHOOSE i \in 1..Len(df.rows) : df.rows[i].d = d]
HasDay(df, d) == \E i \in 1..Len(df.rows) : df.rows[i].d = d

\* the index of pd.concat([a, b], axis=1) for two frames with unique indexes
MergedIndex(a, b) ==
    IF IndexOf(a.rows) = IndexOf(b.rows) \/ Len(b.rows) = 0 THEN IndexOf(a.rows)
    ELSE IF Len(a.rows) = 0 THEN IndexOf(b.rows)
    ELSE SortedMultiUnion({IndexOf(a.rows), IndexOf(b.rows)})

\* pd.concat([df_yf, df_fred], axis=1): frames of shape (0, 0) are left out
ConcatFrames(a, b) ==
    IF b = EmptyFrame THEN a
    ELSE IF a = EmptyFrame THEN b
    ELSE LET idx == MergedIndex(a, b)
         IN [cols |-> a.cols \cup b.cols,
             rows |-> [i \in 1..Len(idx) |->
                         [d |-> idx[i],
                          v |-> [c \in a.cols \cup b.cols |->
                                   IF c \in a.cols
                                   THEN IF HasDay(a, idx[i]) THEN RowAt(a, idx[i]).v[c] ELSE NaN
                                   ELSE IF HasDay(b, idx[i]) THEN RowAt(b, idx[i]).v[c] ELSE NaN]]]]

\* lines 274-278
MergeAll(yf, fred) == Ffill(DropDuplicated(ConcatFrames(yf, fred)))

----------------------------------------------------------------------------
(* Technical and execution logic *)

\* vals[lo] + ... + vals[hi], summed by halves
RECURSIVE SumTo(_, _, _)
SumTo(vals, lo, hi) ==
    IF lo > hi THEN 0
    ELSE IF lo = hi THEN vals[lo]
    ELSE SumTo(vals, lo, (lo + hi) \div 2) + SumTo(vals, (lo + hi) \div 2 + 1, hi)

\* Series.rolling(window=w).mean(): NaN until w non-missing values fill the window
RollingMean(vals, w) ==
    [i \in 1..Len(vals) |->
        IF i >= w /\ \A j \in (i - w + 1)..i : vals[j] # NaN
        THEN SumTo(vals, i - w + 1, i) \div w
        ELSE NaN]

\* df_yf["Gold"].rolling(window=200).mean().reindex(df_all.index)
MovingAverage(yf, all) ==
    LET ma == RollingMean(Col(yf, "Gold"), MAWindow)
    IN [i \in 1..Len(all.rows) |->
          IF \E k \in 1..Len(yf.rows) : yf.rows[k].d = all.rows[i].d
          THEN ma[CHOOSE k \in 1..Len(yf.rows) : yf.rows[k].d = all.rows[i].d]
          ELSE NaN]

With200MA(yf, all) ==
    IF "Gold" \in yf.cols THEN WithCol(all, "200MA", MovingAverage(yf, all)) ELSE all

ZeroPivot == [p |-> 0, r1 |-> 0, s1 |-> 0, r2 |-> 0, s2 |-> 0]

\* lines 300-304, from the period's high, low and close
PivotLevels(y_high, y_low, y_close) ==
    LET p == IF y_high = NaN \/ y_low = NaN \/ y_close = NaN THEN NaN
             ELSE (y_high + y_low + y_close) \div 3
    IN [p |-> p,
        r1 |-> Sub(Add(p, p), y_low),
        s1 |-> Sub(Add(p, p), y_high),
        r2 |-> Add(p, Sub(y_high, y_low)),
        s2 |-> Sub(p, Sub(y_high, y_low))]

\* pivot levels from df_yf["Gold"].shift(1).iloc[-1] used as high, low and
\* close; a missing Gold column raises KeyError, which is swallowed
PivotPoints(yf) ==
    IF Len(yf.rows) > 2 /\ "Gold" \in yf.cols
    THEN LET y == yf.rows[Len(yf.rows) - 1].v["Gold"]
         IN PivotLevels(y, y, y)
    ELSE ZeroPivot

\* 31.1035 grams per troy ounce, as ten-thousandths
TroyOunceGrams == 311035
\* the simulated domestic offset 8.5 CNY/g, in tenths
SimulatedPremium == 85

\* (Gold / 31.1035) * USDCNY in tenths of CNY/g; the FX rate is in hundredths
FairCNY(gold, fx) ==
    IF gold = NaN \/ fx = NaN THEN NaN ELSE (gold * fx * 1000) \div TroyOunceGrams

\* lines 307-313
WithPremium(all) ==
    IF "Gold" \in all.cols /\ "USDCNY" \in all.cols
    THEN LET fair == [i \in 1..Len(all.rows) |->
                        FairCNY(all.rows[i].v["Gold"], all.rows[i].v["USDCNY"])]
             dom == [i \in 1..Len(all.rows) |-> Add(fair[i], SimulatedPremium)]
         IN WithCol(WithCol(WithCol(all, "Fair_CNY", fair), "Dom_Spot", dom),
                    "Premium", [i \in 1..Len(all.rows) |-> Sub(dom[i], fair[i])])
    ELSE WithCol(all, "Premium", [i \in 1..Len(all.rows) |-> 0])

\* int(): truncation toward zero
TruncDiv(a, b) == IF a >= 0 THEN a \div b ELSE -((-a) \div b)

DefaultProb == 90

\* round() in place of int()
ProbFromGapRounded(diff) ==
    IF diff <= 0 THEN 95
    ELSE IF diff >= 250 THEN 10
    ELSE (95 * 250 - diff * 85 + 125) \div 250

\* the probability as a function of diff = current_ff - implied_rate, in
\* thousandths of a percentage point: int(95 - (diff / 0.25) * 85)
ProbFromGap(diff) ==
    IF diff <= 0 THEN 95
    ELSE IF diff >= 250 THEN 10
    ELSE TruncDiv(95 * 250 - diff * 85, 250)

\* series.dropna(): the non-missing values in order
DropNa(vals) == SelectSeq(vals, IsNum)

\* the estimate starting from an even chance instead of 90
FedWatchEvenDefault(all) ==
    IF "FFF" \in all.cols /\ "FedFunds" \in all.cols
    THEN LET fff == DropNa(Col(all, "FFF"))
             ff == DropNa(Col(all, "FedFunds"))
         IN IF fff = <<>> \/ ff = <<>> THEN 50
            ELSE ProbFromGap(ff[Len(ff)] - (100000 - fff[Len(fff)]))
    ELSE 50

\* lines 315-326; an empty dropna() raises IndexError, which is swallowed.
\* Rates and the futures quote are in thousandths.
FedWatch(all) ==
    IF "FFF" \in all.cols /\ "FedFunds" \in all.cols
    THEN LET fff == DropNa(Col(all, "FFF"))
             ff == DropNa(Col(all, "FedFunds"))
         IN IF fff = <<>> \/ ff = <<>> THEN DefaultProb
            ELSE ProbFromGap(ff[Len(ff)] - (100000 - fff[Len(fff)]))
    ELSE DefaultProb

----------------------------------------------------------------------------
(* Anchor drop and spreads *)

\* the drop forgotten
KeepMissingGold(all) == all

\* df_all.dropna(subset=["Gold"])
DropMissingGold(all) ==
    [all EXCEPT !.rows = SelectRows(all.rows, {i \in 1..Len(all.rows) : all.rows[i].v["Gold"] # NaN})]

\* the fallback left missing instead of 0
SpreadOrMissing(all, name, a, b) ==
    IF a \in all.cols /\ b \in all.cols
    THEN WithCol(all, name, [i \in 1..Len(all.rows) |-> Sub(all.rows[i].v[a], all.rows[i].v[b])])
    ELSE WithCol(all, name, [i \in 1..Len(all.rows) |-> NaN])

\* a derived column a - b, or the constant 0 when an input column is absent
Spread(all, name, a, b) ==
    IF a \in all.cols /\ b \in all.cols
    THEN WithCol(all, name, [i \in 1..Len(all.rows) |-> Sub(all.rows[i].v[a], all.rows[i].v[b])])
    ELSE WithCol(all, name, [i \in 1..Len(all.rows) |-> 0])

\* lines 336-352
WithSpreads(all) ==
    Spread(Spread(Spread(all, "10Y_Real", "10Y_Nominal_YF", "10Y_Breakeven_FRED"),
                  "Fed_Expectations", "2Y_Nominal", "FedFunds"),
           "Liquidity_Spread", "SOFR", "FedFunds")

----------------------------------------------------------------------------
(* KPI cards and the regime classifier *)

NoChange == [def |-> FALSE, nan |-> FALSE, num |-> 0, den |-> 1]

\* ((current_gold - prev_gold) / prev_gold) * 100, kept as a fraction
PctChange(cur, prev) ==
    IF cur = NaN \/ prev = NaN THEN [def |-> TRUE, nan |-> TRUE, num |-> 0, den |-> 1]
    ELSE [def |-> TRUE, nan |-> FALSE, num |-> (cur - prev) * 100, den |-> prev]

\* gold_pct_change > 0 if 'gold_pct_change' in locals() else False
GoldIsUp(chg) ==
    /\ chg.def
    /\ ~chg.nan
    /\ \/ chg.num > 0 /\ chg.den >= 0
       \/ chg.num < 0 /\ chg.den < 0

Last(vals) == vals[Len(vals)]

\* the second rule taking everything the first one leaves
PrimaryRegimeNoGap(prob, spread) ==
    IF prob > 80 /\ Gt(spread, -150) THEN "Macro Headwind"
    ELSE IF prob > 80 /\ Lt(spread, -150) THEN "Divergence Alert"
    ELSE IF prob < 50 /\ Lt(spread, -400) THEN "Strong Tailwind"
    ELSE "Neutral"

\* the if/elif chain of lines 416-438; spread in thousandths
PrimaryRegime(prob, spread) ==
    IF prob > 80 /\ Gt(spread, -150) THEN "Macro Headwind"
    ELSE IF prob > 80 /\ Lt(spread, -300) THEN "Divergence Alert"
    ELSE IF prob < 50 /\ Lt(spread, -400) THEN "Strong Tailwind"
    ELSE "Neutral"

\* the two overrides tested in the other order
StatusTextReversed(regime, vix_val, gvz_val, gold_is_up, gold_is_high) ==
    IF Gt(gvz_val, 25) /\ gold_is_high THEN "Overheated Long Caution"
    ELSE IF Gt(vix_val, 25) /\ gold_is_up THEN "Risk-Off Resonance"
    ELSE regime

\* lines 440-447: the overrides replace status_text and advice_text only
StatusText(regime, vix_val, gvz_val, gold_is_up, gold_is_high) ==
    IF Gt(vix_val, 25) /\ gold_is_up THEN "Risk-Off Resonance"
    ELSE IF Gt(gvz_val, 25) /\ gold_is_high THEN "Overheated Long Caution"
    ELSE regime

LastOr0(all, c) == IF c \in all.cols THEN Last(Col(all, c)) ELSE 0

\* Gold.iloc[-1] > Gold.rolling(20).mean().iloc[-1] if len(df_all) > 20
GoldIsHigh(all) ==
    /\ Len(all.rows) > 20
    /\ LET g == Col(all, "Gold")
       IN /\ \A j \in (Len(g) - 19)..Len(g) : g[j] # NaN
          /\ g[Len(g)] * 20 > SumTo(g, Len(g) - 19, Len(g))

\* lines 409-414
GldFlowNeg(all) ==
    /\ "Gold" \in all.cols /\ "GLD" \in all.cols /\ Len(all.rows) > 5
    /\ LET n == Len(all.rows)
       IN /\ Gt(all.rows[n].v["Gold"], all.rows[n - 4].v["Gold"])
          /\ Lt(all.rows[n].v["GLD"], all.rows[n - 4].v["GLD"])

AbsDiff(a, b) == IF a = NaN \/ b = NaN THEN NaN ELSE IF a >= b THEN a - b ELSE b - a

\* lines 449-459; the premium is in tenths
ExtraAlerts(all, piv, premium) ==
    {a \in {"flow", "crowding", "vacuum", "arbitrage"} :
        \/ a = "flow" /\ GldFlowNeg(all)
        \/ a = "crowding" /\ Gt(LastOr0(all, "CFTC_Net"), 200000)
        \/ a = "vacuum" /\ Lt(AbsDiff(Last(Col(all, "Gold")), piv.p), 5)
        \/ a = "arbitrage" /\ Gt(premium, 150)}

NoSignal == [regime |-> "none", status_text |-> "none", prob |-> 0, alerts |-> {}]

\* the rendered box of lines 395-474
RegimeSignal(all, piv, prob, chg, premium) ==
    LET regime == PrimaryRegime(prob, Last(Col(all, "Fed_Expectations")))
    IN [regime |-> regime,
        status_text |-> StatusText(regime, LastOr0(all, "VIX"), LastOr0(all, "GVZ"),
                                   GoldIsUp(chg), GoldIsHigh(all)),
        prob |-> prob,
        alerts |-> ExtraAlerts(all, piv, premium)]

\* the KPI cards raise IndexError on a one-row market frame or an empty table
KpiRaises(yf, all) ==
    \/ Len(yf.rows) > 0 /\ yf.cols # {} /\ Len(yf.rows) < 2
    \/ Len(all.rows) = 0

\* the chart section raises KeyError / IndexError on these
ChartsRaise(yf, all) ==
    \/ Len(yf.rows) > 0 /\ yf.cols # {} /\ "DXY" \notin yf.cols
    \/ "CFTC_Net" \in all.cols /\ DropNa(Col(all, "CFTC_Net")) = <<>>
    \/ "USDCNY" \notin all.cols
    \/ "Fair_CNY" \notin all.cols

----------------------------------------------------------------------------
(* The script, step by step *)

LoadYF ==
    /\ pc = "load_yf"
    /\ LET r == get_yfinance_data(rawYF)
       IN IF r = Raised
          THEN pc' = "raised" /\ UNCHANGED df_yf
          ELSE pc' = "load_fred" /\ df_yf' = r
    /\ UNCHANGED <<time_range, tod, emptyCmpRaises, fredKeyOk, rawYF, rawFRED,
                   df_fred, df_all, pivot, fedwatch_prob, gold_pct_change,
                   current_premium, signal>>

LoadFRED ==
    /\ pc = "load_fred"
    /\ df_fred' = get_fred_data(rawFRED, time_range, tod, fredKeyOk)
    /\ pc' = "merge"
    /\ UNCHANGED <<time_range, tod, emptyCmpRaises, fredKeyOk, rawYF, rawFRED,
                   df_yf, df_all, pivot, fedwatch_prob, gold_pct_change,
                   current_premium, signal>>

\* lines 274-283
MergeAndSlice ==
    /\ pc = "merge"
    /\ LET m == MergeAll(df_yf, df_fred)
       IN IF m = EmptyFrame /\ emptyCmpRaises
          THEN pc' = "raised" /\ df_all' = m
          ELSE pc' = "technical" /\ df_all' = SliceFromStart(m, time_range, tod)
    /\ UNCHANGED <<time_range, tod, emptyCmpRaises, fredKeyOk, rawYF, rawFRED,
                   df_yf, df_fred, pivot, fedwatch_prob, gold_pct_change,
                   current_premium, signal>>

\* lines 285-326
Technical ==
    /\ pc = "technical"
    /\ df_all' = WithPremium(With200MA(df_yf, df_all))
    /\ pivot' = PivotPoints(df_yf)
    /\ fedwatch_prob' = FedWatch(df_all')
    /\ pc' = "anchor"
    /\ UNCHANGED <<time_range, tod, emptyCmpRaises, fredKeyOk, rawYF, rawFRED,
                   df_yf, df_fred, gold_pct_change, current_premium, signal>>

\* lines 328-334
AnchorDrop ==
    /\ pc = "anchor"
    /\ IF "Gold" \in df_all.cols
       THEN pc' = "spreads" /\ df_all' = DropMissingGold(df_all)
       ELSE pc' = "stopped" /\ UNCHANGED df_all
    /\ UNCHANGED <<time_range, tod, emptyCmpRaises, fredKeyOk, rawYF, rawFRED,
                   df_yf, df_fred, pivot, fedwatch_prob, gold_pct_change,
                   current_premium, signal>>

\* lines 336-352
Spreads ==
    /\ pc = "spreads"
    /\ df_all' = WithSpreads(df_all)
    /\ pc' = "kpi"
    /\ UNCHANGED <<time_range, tod, emptyCmpRaises, fredKeyOk, rawYF, rawFRED,
                   df_yf, df_fred, pivot, fedwatch_prob, gold_pct_change,
                   current_premium, signal>>

\* lines 354-388
KpiCards ==
    /\ pc = "kpi"
    /\ IF KpiRaises(df_yf, df_all)
       THEN pc' = "raised" /\ UNCHANGED <<gold_pct_change, current_premium>>
       ELSE /\ pc' = "classify"
            /\ gold_pct_change' =
                   PctChange(df_yf.rows[Len(df_yf.rows)].v["Gold"],
                             df_yf.rows[Len(df_yf.rows) - 1].v["Gold"])
            /\ current_premium' = Last(Col(df_all, "Premium"))
    /\ UNCHANGED <<time_range, tod, emptyCmpRaises, fredKeyOk, rawYF, rawFRED,
                   df_yf, df_fred, df_all, pivot, fedwatch_prob, signal>>

\* lines 392-476
Classify ==
    /\ pc = "classify"
    /\ signal' = RegimeSignal(df_all, pivot, fedwatch_prob, gold_pct_change,
                              current_premium)
    /\ pc' = "charts"
    /\ UNCHANGED <<time_range, tod, emptyCmpRaises, fredKeyOk, rawYF, rawFRED,
                   df_yf, df_fred, df_all, pivot, fedwatch_prob, gold_pct_change,
                   current_premium>>

\* lines 478-750
Charts ==
    /\ pc = "charts"
    /\ pc' = IF ChartsRaise(df_yf, df_all) THEN "raised" ELSE "done"
    /\ UNCHANGED <<time_range, tod, emptyCmpRaises, fredKeyOk, rawYF, rawFRED,
                   df_yf, df_fred, df_all, pivot, fedwatch_prob, gold_pct_change,
                   current_premium, signal>>

Next ==
    \/ LoadYF
    \/ LoadFRED
    \/ MergeAndSlice
    \/ Technical
    \/ AnchorDrop
    \/ Spreads
    \/ KpiCards
    \/ Classify
    \/ Charts

----------------------------------------------------------------------------
(* Inputs of a cycle *)

\* longest raw market series of the alignment inputs
MaxLen == 2

SeqsUpTo(S, n) == UNION {[1..k -> S] : k \in 0..n}

\* the days around the display boundary: the day before, the day itself, the days after
NearStart(label) == {StartDay(label) - 1, StartDay(label), StartDay(label) + 1}

\* a Gold series in arrival order: any days, duplicates and gaps allowed, the
\* i-th arriving quote is 2000 + 10 * (i - 1) or missing
GoldSeries(label) ==
    {[i \in 1..Len(q) |-> [d |-> q[i][1],
                           x |-> IF q[i][2] THEN NaN ELSE 2000 + 10 * (i - 1)]] :
        q \in SeqsUpTo(NearStart(label) \X BOOLEAN, MaxLen)}

\* the ascending sequence of the days of S
Ascending(S) ==
    IF S = {} THEN <<>>
    ELSE SelectSeq([j \in 1..(MaxOf(S) - MinOf(S) + 1) |-> MinOf(S) + j - 1],
                   LAMBDA d : d \in S)

\* a series as providers normally deliver it: ascending unique days, the
\* value on day d is base + (d - StartDay) * step
Clean(S, label, base, step) ==
    LET idx == Ascending(S)
    IN [i \in 1..Len(idx) |-> [d |-> idx[i], x |-> base + (idx[i] - StartDay(label)) * step]]

CleanSeries(days, label, base, step) == {Clean(S, label, base, step) : S \in SUBSET days}

NoYF == [t \in YF_TICKERS |-> <<>>]
NoFRED == [t \in FRED_TICKERS |-> <<>>]

AllEmpty(yf, fred) == yf = NoYF /\ fred = NoFRED

\* the build flag and the key are observable only on these inputs
Settings(yf, fred) ==
    /\ emptyCmpRaises \in (IF AllEmpty(yf, fred) THEN BOOLEAN ELSE {FALSE})
    /\ fredKeyOk \in (IF fred = NoFRED THEN BOOLEAN ELSE {TRUE})

Start ==
    /\ pc = "load_yf"
    /\ df_yf = EmptyFrame /\ df_fred = EmptyFrame /\ df_all = EmptyFrame
    /\ pivot = ZeroPivot
    /\ fedwatch_prob = DefaultProb
    /\ gold_pct_change = NoChange
    /\ current_premium = 0
    /\ signal = NoSignal

\* alignment inputs: Gold in any arrival order, a second market series and
\* a macro series, under the default lookback
InitAlign ==
    /\ time_range = "1y"
    /\ tod \in {0, 1}
    /\ \E g \in GoldSeries("1y"),
          n \in CleanSeries(NearStart("1y"), "1y", 4550, 50),
          b \in CleanSeries(NearStart("1y"), "1y", 2300, 10) :
            /\ rawYF = [NoYF EXCEPT !["Gold"] = g, !["10Y_Nominal_YF"] = n]
            /\ rawFRED = [NoFRED EXCEPT !["10Y_Breakeven_FRED"] = b]
    /\ Settings(rawYF, rawFRED)
    /\ Start

\* the days of a complete market history of three rows inside the window
InWindow(label) == {StartDay(label) + 1, StartDay(label) + 2, StartDay(label) + 3}

CanonicalBase(t) ==
    CASE t = "Gold" -> 2000
      [] t = "DXY" -> 104
      [] t = "10Y_Nominal_YF" -> 4500
      [] t = "GLD" -> 190
      [] t = "FFF" -> 94750
      [] t = "VIX" -> 15
      [] t = "GVZ" -> 16
      [] t = "USDCNY" -> 720
      [] t = "DomGold" -> 30
      [] t = "10Y_Breakeven_FRED" -> 2300
      [] t = "2Y_Nominal" -> 4800
      [] t = "FedFunds" -> 5250
      [] t = "SOFR" -> 5300
      [] t = "Interest_to_GDP" -> 3
      [] t = "Federal_Debt_GDP" -> 120
      [] t = "CFTC_Net" -> 150000

\* the series that no step of the script reads outside a guarded chart
Unread == {"DomGold", "Interest_to_GDP", "Federal_Debt_GDP"}

\* availability inputs: every series is either absent or a complete history
InitPresence ==
    /\ time_range = "1y"
    /\ tod = 1
    /\ \E P \in SUBSET ((YF_TICKERS \cup FRED_TICKERS) \ Unread), u \in BOOLEAN :
          LET here(t) == t \in P \/ (u /\ t \in Unread)
          IN /\ rawYF = [t \in YF_TICKERS |->
                           IF here(t) THEN Clean(InWindow("1y"), "1y", CanonicalBase(t), 0)
                           ELSE <<>>]
             /\ rawFRED = [t \in FRED_TICKERS |->
                             IF here(t) THEN Clean(InWindow("1y"), "1y", CanonicalBase(t), 0)
                             ELSE <<>>]
    /\ Settings(rawYF, rawFRED)
    /\ Start

\* window inputs: every lookback label and time of day, Gold around the
\* boundary and a macro series before, inside and after the fetch buffer
InitWindow ==
    /\ time_range \in TimeRanges
    /\ tod \in {0, 1}
    /\ \E g \in CleanSeries(NearStart(time_range), time_range, 2000, 10),
          m \in CleanSeries({StartDay(time_range) - FredBufferDays - 1,
                             StartDay(time_range) - FredBufferDays,
                             StartDay(time_range) - 1,
                             StartDay(time_range) + 1}, time_range, 3000, 1) :
            /\ rawYF = [NoYF EXCEPT !["Gold"] = g]
            /\ rawFRED = [NoFRED EXCEPT !["Interest_to_GDP"] = m]
    /\ Settings(rawYF, rawFRED)
    /\ Start

\* length in days of the long market history
HistoryLen == 211

HistoryDays == (Today - HistoryLen)..(Today - 1)

\* days before the run on which the dollar index trades and Gold does not
\* (0: no such day)
HolidayOffsets == {0, 5, 100}

\* history inputs: a market history longer than the moving-average window,
\* under every lookback label, the second market series trading every day
\* and Gold every day but possibly one
InitHistory ==
    /\ time_range \in TimeRanges
    /\ tod = 1
    /\ \E h \in HolidayOffsets :
          /\ rawYF = [NoYF EXCEPT
                        !["Gold"] = Clean(HistoryDays \ {Today - h}, time_range, 2000, 1),
                        !["DXY"] = Clean(HistoryDays, time_range, 104, 0)]
          /\ rawFRED = NoFRED
    /\ emptyCmpRaises = FALSE /\ fredKeyOk = TRUE
    /\ Start

\* length in days of the histories of the classifier inputs (the 20-row
\* average of line 405 needs more than 20 rows)
SignalLen == 22

SignalDay(i) == Today - SignalLen + i - 1

\* constant, linear, and level-then-two-closes series over the signal days
Flat(x) == [i \in 1..SignalLen |-> [d |-> SignalDay(i), x |-> x]]
Ramp(base, k) == [i \in 1..SignalLen |-> [d |-> SignalDay(i), x |-> base + k * i]]
GoldShape(level, last) ==
    [i \in 1..SignalLen |->
        [d |-> SignalDay(i),
         x |-> IF i = SignalLen THEN last
               ELSE IF i = SignalLen - 1 THEN 2000 ELSE level]]

\* futures quote, 2-year yield and presence of the policy rate, one choice
\* per outcome of the decision list and one without the policy rate
PolicyCases ==
    {[fff |-> 94750, y2 |-> 5250, ff |-> TRUE],
     [fff |-> 94750, y2 |-> 4900, ff |-> TRUE],
     [fff |-> 95000, y2 |-> 4800, ff |-> TRUE],
     [fff |-> 94875, y2 |-> 5050, ff |-> TRUE],
     [fff |-> 95000, y2 |-> 4800, ff |-> FALSE]}

\* classifier inputs: complete histories whose latest rows set the price
\* momentum, the price against its average and the pivot, the fund's
\* holdings, the positioning, the two volatility indexes and the rates
SignalParams ==
    {q \in [level : {1900, 2100}, last : {1980, 1997, 2003, 2020},
            k : {-1, 1}, cftc : {150000, 250000},
            vix : {15, 30}, gvz : {16, 30}, pol : PolicyCases] :
        (q.vix = 15 /\ q.gvz = 16) \/ (q.k = 1 /\ q.cftc = 150000)}

SignalYF(q) ==
    [NoYF EXCEPT !["Gold"] = GoldShape(q.level, q.last),
                 !["DXY"] = Flat(104),
                 !["GLD"] = Ramp(190, q.k),
                 !["VIX"] = Flat(q.vix),
                 !["GVZ"] = Flat(q.gvz),
                 !["USDCNY"] = Flat(720),
                 !["FFF"] = Flat(q.pol.fff)]

SignalFRED(q) ==
    [NoFRED EXCEPT !["2Y_Nominal"] = Flat(q.pol.y2),
                   !["FedFunds"] = IF q.pol.ff THEN Flat(5250) ELSE <<>>,
                   !["CFTC_Net"] = Flat(q.cftc)]

InitSignal ==
    /\ time_range = "1y"
    /\ tod = 1
    /\ \E q \in SignalParams : rawYF = SignalYF(q) /\ rawFRED = SignalFRED(q)
    /\ emptyCmpRaises = FALSE /\ fredKeyOk = TRUE
    /\ Start

Init == InitAlign \/ InitPresence \/ InitWindow \/ InitHistory \/ InitSignal

Spec == Init /\ [][Next]_vars

----------------------------------------------------------------------------
(* Properties *)

\* positions of the script at which the final table exists
AfterDrop == {"spreads", "kpi", "classify", "charts", "done"}
AfterSpreads == {"kpi", "classify", "charts", "done"}
AfterTechnical == {"anchor", "stopped"} \cup AfterDrop

GoldMissing(all) == {i \in 1..Len(all.rows) : all.rows[i].v["Gold"] = NaN}

\* C1 (anchor-drop invariant): once the script is past the anchor check, the
\* table has a Gold column and no row of it has a missing Gold value.
C1_AnchorDrop ==
    /\ pc \in AfterDrop => "Gold" \in df_all.cols /\ GoldMissing(df_all) = {}
    /\ pc = "raised" /\ "Premium" \in df_all.cols => GoldMissing(df_all) = {}

\* a cycle in which the drop removed a leading row contributed by the second
\* market series and kept a later one
C1_Witness ==
    /\ pc = "kpi"
    /\ Len(df_all.rows) > 0
    /\ \E i \in 1..Len(rawYF["10Y_Nominal_YF"]) :
          LET d == rawYF["10Y_Nominal_YF"][i].d
          IN AtOrAfterStart(d, time_range, tod) /\ ~HasDay(df_all, d)

\* the observations the fetcher of column c returned
Observed(c) ==
    IF c \in YF_TICKERS THEN rawYF[c] ELSE FredObservations(rawFRED[c], time_range)

\* ascending unique days, as providers normally deliver
IsClean(s) == StrictlyIncreasing([i \in 1..Len(s) |-> s[i].d])
CleanInputs ==
    /\ \A t \in YF_TICKERS : IsClean(rawYF[t])
    /\ \A t \in FRED_TICKERS : IsClean(rawFRED[t])

\* the value observed at the latest day <= d carrying a value, NaN if none
LastObservedAt(s, d) ==
    LET seen == {i \in 1..Len(s) : s[i].d <= d /\ s[i].x # NaN}
    IN IF seen = {} THEN NaN
       ELSE s[CHOOSE i \in seen : \A j \in seen :
                    s[j].d < s[i].d \/ (s[j].d = s[i].d /\ j <= i)].x

Fetched == YF_TICKERS \cup FRED_TICKERS

\* C2 (forward-fill correctness): in the final table every fetched column
\* holds, at every retained day, the value observed at the latest day at or
\* before it (macro observations of the fetch buffer included), and is
\* missing before the column's first observation.  Stated for series that
\* arrive ascending and without duplicates.
C2_ForwardFill ==
    pc \in AfterDrop /\ CleanInputs =>
        \A c \in df_all.cols \cap Fetched : \A i \in 1..Len(df_all.rows) :
            df_all.rows[i].v[c] = LastObservedAt(Observed(c), df_all.rows[i].d)

\* C3 (missing anchor is a hard stop): the script goes past the anchor check
\* only when the table holds a usable Gold value; otherwise it stops there.
C3_MissingAnchorStops ==
    pc \in AfterDrop =>
        "Gold" \in df_all.cols /\ \E i \in 1..Len(df_all.rows) : df_all.rows[i].v["Gold"] # NaN

CompleteHistory(t) == Clean(InWindow(time_range), time_range, CanonicalBase(t), 0)

\* C4 (fetch-failure isolation): with a complete Gold history, whichever other
\* series are absent, the cycle neither raises nor stops.
C4_FetchIsolation ==
    rawYF["Gold"] = CompleteHistory("Gold") => pc \notin {"raised", "stopped"}

AllZero(all, c) == c \in all.cols /\ \A i \in 1..Len(all.rows) : all.rows[i].v[c] = 0

Absent(all, cs) == \E c \in cs : c \notin all.cols

AfterMerge == {"technical"} \cup AfterTechnical

\* C8 (index order): once merged, the index of the table is strictly
\* increasing, hence free of duplicate days, whatever the arrival order.
C8_IndexIncreasing ==
    pc \in AfterMerge => StrictlyIncreasing(IndexOf(df_all.rows))

\* a series without its duplicate days, the latest-arriving observation kept
DedupLast(s) ==
    LET tagged == [i \in 1..Len(s) |-> [pos |-> i, o |-> s[i]]]
        kept == SelectSeq(tagged, LAMBDA t : \A j \in (t.pos + 1)..Len(s) : s[j].d # t.o.d)
    IN [k \in 1..Len(kept) |-> kept[k].o]

\* where the script stands after the spreads, and its table, for given inputs
Outcome(yf, fred, label, t, keyOk, cmpRaises) ==
    LET y == get_yfinance_data(yf)
        m == MergeAll(y, get_fred_data(fred, label, t, keyOk))
        tech == WithPremium(With200MA(y, SliceFromStart(m, label, t)))
    IN IF y = Raised THEN [pc |-> "raised", table |-> EmptyFrame]
       ELSE IF m = EmptyFrame /\ cmpRaises THEN [pc |-> "raised", table |-> EmptyFrame]
       ELSE IF "Gold" \notin tech.cols THEN [pc |-> "stopped", table |-> tech]
       ELSE [pc |-> "kpi", table |-> WithSpreads(DropMissingGold(tech))]

\* C9 (dedup idempotence): the cycle ends where, and with the table that, the
\* same cycle fed the per-series deduplicated (last wins) inputs ends.
C9_DedupIdempotent ==
    LET o == Outcome(Evaluated([t \in YF_TICKERS |-> DedupLast(rawYF[t])]),
                     Evaluated([t \in FRED_TICKERS |-> DedupLast(rawFRED[t])]),
                     time_range, tod, fredKeyOk, emptyCmpRaises)
    IN /\ pc = "kpi" => o.pc = "kpi" /\ o.table = df_all
       /\ pc = "stopped" => o.pc = "stopped" /\ o.table = df_all
       /\ pc = "raised" /\ "Premium" \notin df_all.cols => o.pc = "raised"

\* C10 (real yield): at every retained row the real yield is the nominal
\* yield observed at the latest day at or before the row minus the breakeven
\* rate observed at the latest day at or before it, missing while either has
\* no observation yet.  Stated for series that arrive ascending and without
\* duplicates.
C10_RealYield ==
    pc \in AfterSpreads /\ CleanInputs
       /\ {"10Y_Nominal_YF", "10Y_Breakeven_FRED"} \subseteq df_all.cols =>
        \A i \in 1..Len(df_all.rows) :
            df_all.rows[i].v["10Y_Real"] =
                Sub(LastObservedAt(Observed("10Y_Nominal_YF"), df_all.rows[i].d),
                    LastObservedAt(Observed("10Y_Breakeven_FRED"), df_all.rows[i].d))

\* the Gold observations dated at or before d, in arrival order
AnchorObsUpTo(d) == SelectSeq(rawYF["Gold"], LAMBDA o : o.d <= d /\ o.x # NaN)

\* the mean of the last w observations of s
MeanOfLatest(s, w) ==
    SumTo([i \in 1..Len(s) |-> s[i].x], Len(s) - w + 1, Len(s)) \div w

\* C11 (moving average): at every row of the final table whose day has at
\* least 200 Gold observations at or before it in the market history, the
\* 200MA cell is the mean of the 200 most recent of them, whatever the
\* lookback label and whatever days other series contribute.  Stated for
\* series that arrive ascending and without duplicates.
C11_MovingAverage ==
    pc \in AfterDrop /\ CleanInputs =>
        /\ "200MA" \in df_all.cols
        /\ \A i \in 1..Len(df_all.rows) :
              LET obs == AnchorObsUpTo(df_all.rows[i].d)
              IN Len(obs) >= MAWindow =>
                    df_all.rows[i].v["200MA"] = MeanOfLatest(obs, MAWindow)

\* series c has an observation in the fetch buffer before the display window
SeenInBuffer(c) ==
    \E i \in 1..Len(rawFRED[c]) :
        /\ rawFRED[c][i].x # NaN
        /\ rawFRED[c][i].d >= StartDay(time_range) - FredBufferDays
        /\ ~AtOrAfterStart(rawFRED[c][i].d, time_range, tod)

\* C12 (quarterly buffer guarantee): under every lookback label, a macro
\* series with an observation in the 150 days before the display start has a
\* column in the final table that is non-missing at the first retained row,
\* also when it has no observation inside the window.  Stated for series
\* that arrive ascending and without duplicates, the provider key configured.
C12_BufferGuarantee ==
    pc \in AfterDrop /\ CleanInputs /\ fredKeyOk /\ Len(df_all.rows) > 0 =>
        \A c \in FRED_TICKERS :
            SeenInBuffer(c) => c \in df_all.cols /\ df_all.rows[1].v[c] # NaN

AllLevels(c) == [p |-> c, r1 |-> c, s1 |-> c, r2 |-> c, s2 |-> c]

\* C13 (pivot levels): H = 2050, L = 2020, C = 2035 give 2035, 2050, 2020,
\* 2065, 2005; and in a cycle, whenever a Gold close dated strictly before
\* the latest market row exists, all five levels equal the most recent such
\* close.  Stated for series that arrive ascending and without duplicates
\* and for market frames of more than two rows, the ones line 292 lets through.
C13_PivotLevels ==
    /\ PivotLevels(2050, 2020, 2035) =
           [p |-> 2035, r1 |-> 2050, s1 |-> 2020, r2 |-> 2065, s2 |-> 2005]
    /\ pc \in AfterTechnical /\ CleanInputs /\ Len(df_yf.rows) > 2 =>
           LET latest == df_yf.rows[Len(df_yf.rows)].d
               close == LastObservedAt(rawYF["Gold"], latest - 1)
           IN close # NaN => pivot = AllLevels(close)

\* where a whole cycle stands before the charts, its final table and its
\* rendered box, for given inputs
Rendered(yf, fred, label, t, keyOk, cmpRaises) ==
    LET y == get_yfinance_data(yf)
        o == Outcome(yf, fred, label, t, keyOk, cmpRaises)
        tech == WithPremium(With200MA(y,
                    SliceFromStart(MergeAll(y, get_fred_data(fred, label, t, keyOk)), label, t)))
    IN IF o.pc # "kpi" THEN [pc |-> o.pc, table |-> o.table, signal |-> NoSignal]
       ELSE IF KpiRaises(y, o.table) THEN [pc |-> "raised", table |-> o.table, signal |-> NoSignal]
       ELSE [pc |-> "charts",
             table |-> o.table,
             signal |-> RegimeSignal(o.table, PivotPoints(y), FedWatch(tech),
                                     PctChange(y.rows[Len(y.rows)].v["Gold"],
                                               y.rows[Len(y.rows) - 1].v["Gold"]),
                                     Last(Col(o.table, "Premium")))]

AlertNames == {"flow", "crowding", "vacuum", "arbitrage"}
RegimeNames == {"Macro Headwind", "Divergence Alert", "Strong Tailwind", "Neutral"}

\* the rendered box of the cycle fed the classifier inputs q
SignalOf(q) ==
    Rendered(Evaluated(SignalYF(q)), Evaluated(SignalFRED(q)), "1y", 1, TRUE, FALSE).signal

\* C14 (alert flags): each of the four alerts can fire and every subset of
\* the four is the alert set of some input table, under each primary regime.
\* Evaluated at the end of a cycle fed classifier inputs.
C14_EverySubsetFires ==
    pc = "charts" /\ Len(rawYF["Gold"]) = SignalLen =>
        \A S \in SUBSET AlertNames, r \in RegimeNames :
            \E q \in SignalParams : SignalOf(q).alerts = S /\ SignalOf(q).regime = r

\* C15 (determinism): a cycle given the same raw series and the same
\* lookback label, run at whatever time of day, ends with the same final
\* table (index, columns, values), the same regime label and the same alert
\* set as this one.
C15_Deterministic ==
    pc = "charts" =>
        \A t \in {0, 1} :
            LET other == Rendered(rawYF, rawFRED, time_range, t, fredKeyOk, emptyCmpRaises)
            IN /\ other.pc = "charts"
               /\ other.table = df_all
               /\ other.signal.regime = signal.regime
               /\ other.signal.alerts = signal.alerts

\* the latest value of column c of the final table, 0 without the column
Latest(c) == IF c \in df_all.cols THEN df_all.rows[Len(df_all.rows)].v[c] ELSE 0

\* the latest market close is above the one before it
ClosedUp ==
    LET n == Len(df_yf.rows)
    IN /\ n >= 2
       /\ df_yf.rows[n].v["Gold"] # NaN /\ df_yf.rows[n - 1].v["Gold"] # NaN
       /\ df_yf.rows[n - 1].v["Gold"] > 0
       /\ df_yf.rows[n].v["Gold"] > df_yf.rows[n - 1].v["Gold"]

\* the latest Gold of the final table is above the mean of its last 20 rows
AboveAverage ==
    LET n == Len(df_all.rows)
    IN n > 20 /\ 20 * df_all.rows[n].v["Gold"] >
                    SumTo([i \in 1..n |-> df_all.rows[i].v["Gold"]], n - 19, n)

RiskOff == Latest("VIX") # NaN /\ Latest("VIX") > 25 /\ ClosedUp
Overheated == Latest("GVZ") # NaN /\ Latest("GVZ") > 25 /\ AboveAverage

\* C16 (overrides): the rendered regime (box colour and border) is the one
\* the decision list gives and the rendered probability is the estimate,
\* whether or not an override applies; the label is 'Risk-Off Resonance'
\* iff VIX > 25 and Gold closed up, 'Overheated Long Caution' iff that does
\* not hold and GVZ > 25 and Gold is above its average, and the regime's own
\* label otherwise.
C16_Overrides ==
    pc = "charts" =>
        /\ signal.regime = PrimaryRegime(fedwatch_prob, Latest("Fed_Expectations"))
        /\ signal.prob = fedwatch_prob
        /\ signal.status_text = "Risk-Off Resonance" <=> RiskOff
        /\ signal.status_text = "Overheated Long Caution" <=> ~RiskOff /\ Overheated
        /\ ~RiskOff /\ ~Overheated => signal.status_text = signal.regime

\* both override conditions hold under a regime other than the default one
C16_Witness ==
    /\ pc = "charts"
    /\ RiskOff /\ Overheated
    /\ signal.regime = "Divergence Alert"
    /\ signal.status_text = "Risk-Off Resonance"
    /\ signal.prob = 95

\* C17 (missing policy rate): in a rendered cycle whose table has no
\* FedFunds column, the probability is the default 90, the rate-expectation
\* spread is 0 at every row, and the primary regime is 'Macro Headwind',
\* never 'Neutral', whatever the other inputs.
C17_NoPolicyRate ==
    pc = "charts" /\ "FedFunds" \notin df_all.cols =>
        /\ fedwatch_prob = 90 /\ signal.prob = 90
        /\ AllZero(df_all, "Fed_Expectations")
        /\ signal.regime = "Macro Headwind"

\* no policy rate, while the futures quote and the 2-year yield are those
\* that give 'Strong Tailwind' when the policy rate is there
C17_Witness ==
    /\ pc = "charts"
    /\ rawFRED["FedFunds"] = <<>>
    /\ Latest("FFF") = 95000 /\ Latest("2Y_Nominal") = 4800
    /\ signal.regime = "Macro Headwind" /\ signal.prob = 90
    /\ Latest("Fed_Expectations") = 0

----------------------------------------------------------------------------
(* The classifier and the probability as functions of their inputs *)

\* spreads in thousandths around the three thresholds, and a missing spread
SpreadValues == (-460..-90) \cup {-50, 0, 50, NaN}

\* gaps in thousandths on both sides of [0, 0.25]
GapMargin == 50
Gaps == (-GapMargin)..(250 + GapMargin)

OneRow(vals) ==
    [cols |-> DOMAIN vals, rows |-> <<[d |-> Today, v |-> vals]>>]

\* the script about to classify, with any probability and latest spread
InitRegime ==
    /\ time_range = "1y" /\ tod = 1 /\ emptyCmpRaises = FALSE /\ fredKeyOk = TRUE
    /\ rawYF = NoYF /\ rawFRED = NoFRED
    /\ pc = "classify"
    /\ df_yf = EmptyFrame /\ df_fred = EmptyFrame
    /\ \E s \in SpreadValues :
          df_all = OneRow([c \in {"Gold", "Premium", "Fed_Expectations"} |->
                             IF c = "Gold" THEN 2000 ELSE IF c = "Premium" THEN 0 ELSE s])
    /\ pivot = ZeroPivot
    /\ fedwatch_prob \in 0..100
    /\ gold_pct_change = NoChange
    /\ current_premium = 0
    /\ signal = NoSignal

\* the script about to estimate the probability, with any gap between the
\* policy rate and the rate implied by the futures quote
InitProb ==
    /\ time_range = "1y" /\ tod = 1 /\ emptyCmpRaises = FALSE /\ fredKeyOk = TRUE
    /\ rawYF = NoYF /\ rawFRED = NoFRED
    /\ pc = "technical"
    /\ df_yf = EmptyFrame /\ df_fred = EmptyFrame
    /\ \E g \in Gaps, ff \in {5250, 5330} :
          df_all = OneRow([c \in {"FFF", "FedFunds"} |->
                             IF c = "FedFunds" THEN ff ELSE 100000 - ff + g])
    /\ pivot = ZeroPivot
    /\ fedwatch_prob = DefaultProb
    /\ gold_pct_change = NoChange
    /\ current_premium = 0
    /\ signal = NoSignal

InitFn == InitRegime \/ InitProb

NextFn ==
    \/ Technical
    \/ Classify

SpecFn == InitFn /\ [][NextFn]_vars

LatestSpread == Last(Col(df_all, "Fed_Expectations"))

\* C6 (primary regime): the label is Macro Headwind iff probability > 80 and
\* spread > -0.15; otherwise Divergence Alert iff probability > 80 and
\* spread < -0.30; otherwise Strong Tailwind iff probability < 50 and
\* spread < -0.40; otherwise Neutral.
C6_PrimaryRegime ==
    pc = "charts" =>
        LET p == signal.prob
            s == LatestSpread
            headwind == p > 80 /\ s # NaN /\ s > -150
            divergence == ~headwind /\ p > 80 /\ s # NaN /\ s < -300
            tailwind == ~headwind /\ ~divergence /\ p < 50 /\ s # NaN /\ s < -400
        IN /\ p = fedwatch_prob
           /\ signal.regime \in {"Macro Headwind", "Divergence Alert", "Strong Tailwind", "Neutral"}
           /\ signal.regime = "Macro Headwind" <=> headwind
           /\ signal.regime = "Divergence Alert" <=> divergence
           /\ signal.regime = "Strong Tailwind" <=> tailwind
           /\ signal.regime = "Neutral" <=> ~(headwind \/ divergence \/ tailwind)

\* probability 85 with spread -0.20 falls between the first two rules
C6_Witness ==
    pc = "charts" /\ signal.prob = 85 /\ LatestSpread = -200 /\ signal.regime = "Neutral"

LatestGap == Last(Col(df_all, "FedFunds")) - (100000 - Last(Col(df_all, "FFF")))

\* C7 (policy-easing probability): gap <= 0 gives 95, gap >= 0.25 gives 10,
\* otherwise the floor of 95 - (gap / 0.25) * 85; the result is an integer in
\* [10, 95] and no larger gap gives a larger result.
C7_Probability ==
    pc = "anchor" /\ {"FFF", "FedFunds"} \subseteq df_all.cols /\ Len(df_all.rows) = 1 =>
        LET g == LatestGap
            p == fedwatch_prob
        IN /\ g <= 0 => p = 95
           /\ g >= 250 => p = 10
           /\ g > 0 /\ g < 250 => p * 250 <= 95 * 250 - 85 * g /\ 95 * 250 - 85 * g < (p + 1) * 250
           /\ p \in 10..95
           /\ \A h \in Gaps : h >= g => ProbFromGap(h) <= p

\* the midpoint gap 0.125 gives 52
C7_Witness ==
    /\ pc = "anchor" /\ {"FFF", "FedFunds"} \subseteq df_all.cols /\ Len(df_all.rows) = 1
    /\ LatestGap = 125 /\ fedwatch_prob = 52

====
